---- MODULE Spec2Model ----
(***************************************************************************)
(* q2-micom: the build, grow and registration glue of the plugin.          *)
(*                                                                         *)
(*   Spec      one call of q2_micom._build.build (build_spec, the job      *)
(*             list, the batch workflow and its jobs, the manifest)        *)
(*   GrowSpec  one call of q2_micom._growth.grow                           *)
(*   RegSpec   the registrations of plugin_setup.py and the validation of  *)
(*             a request's parameters against them                         *)
(*                                                                         *)
(* Floats are exact rationals [n, d]; d = 0 stands for NaN (0/0), which    *)
(* compares false with everything, as in numpy.                            *)
(***************************************************************************)
EXTENDS Integers, Sequences, FiniteSets, TLC

VARIABLES
    pc,          \* position in build
    abundance,   \* the collapsed table: sample -> rank value -> count
    models,      \* the manifest of the SBML model database (a sequence)
    rank,        \* build's rank
    threads,     \* build's threads
    cutoff,      \* build's cutoff
    tax,         \* build's tax: the specification (a set of rows)
    args,        \* build's args: the job list
    job,         \* sample -> state of its build_and_save job
    written,     \* pickles written: [path, by]
    reads,       \* files read by the jobs: [path, by]
    calls,       \* calls of micom.workflows.workflow
    manifest,    \* <<>>, or <<rows>> once the manifest csv is written
    returned,    \* build has returned the directory
    gpc,         \* position in grow
    gin,         \* grow's arguments
    gcalls,      \* calls of micom.workflows.grow
    gret,        \* what micom.workflows.grow returned
    gout,        \* the files of the MicomResultsDirectory
    registry,    \* the operations registered so far
    request,     \* the request being validated
    verdict      \* its outcome

buildVars == <<pc, abundance, models, rank, threads, cutoff, tax, args, job,
               written, reads, calls, manifest, returned>>
growVars == <<gpc, gin, gcalls, gret, gout>>
regVars == <<registry, request, verdict>>
vars == <<buildVars, growVars, regVars>>

-----------------------------------------------------------------------------
(* Bounds *)

MaxAbund == 2
MaxThreads == 2

-----------------------------------------------------------------------------
(* Rationals standing for floats *)

Rat(n, d) == [n |-> n, d |-> d]
IsNaN(a) == a.d = 0
RatGT(a, b) == ~IsNaN(a) /\ ~IsNaN(b) /\ a.n * b.d > b.n * a.d
RatGE(a, b) == ~IsNaN(a) /\ ~IsNaN(b) /\ a.n * b.d >= b.n * a.d
RatEQ(a, b) == ~IsNaN(a) /\ ~IsNaN(b) /\ a.n * b.d = b.n * a.d

RECURSIVE SumOver(_, _)
SumOver(f, S) ==
    IF S = {} THEN 0
    ELSE LET x == CHOOSE y \in S : TRUE IN f[x] + SumOver(f, S \ {x})

-----------------------------------------------------------------------------
(* build: inputs *)

RANKS == <<"kingdom", "phylum", "class", "order", "family", "genus", "species">>

Ranks == {RANKS[6], RANKS[7]}

Samples == {"s1", "s2"}

\* The taxonomy after the split into ranks, by feature id.
Taxonomy ==
    [a \in {"a1", "a2"} |->
        IF a = "a1" THEN [genus |-> "g1", species |-> "x1"]
                    ELSE [genus |-> "g3", species |-> "x2"]]

\* The columns of the collapsed table: the rank values of the features.
Columns(r) == {Taxonomy[a][r] : a \in DOMAIN Taxonomy}

DB1 == << [id |-> "m2", genus |-> "g1", species |-> "x1"],
          [id |-> "m1", genus |-> "g1", species |-> "x2"],
          [id |-> "m3", genus |-> "g2", species |-> "x1"] >>
DB2 == << [id |-> "m4", genus |-> "g3", species |-> "x3"] >>
ModelDBs == {DB1, DB2}

Cutoffs == {Rat(0, 1), Rat(1, 10000), Rat(1, 3), Rat(1, 2)}

-----------------------------------------------------------------------------
(* build_spec *)

SbmlPath(i) == i \o ".xml"

RECURSIVE JoinBar(_)
JoinBar(s) ==
    IF Len(s) = 0 THEN ""
    ELSE IF Len(s) = 1 THEN s[1]
    ELSE s[1] \o "|" \o JoinBar(Tail(s))

ReduceGroupLast(df) ==
    [df[Len(df)] EXCEPT !.file = JoinBar([i \in 1..Len(df) |-> df[i].file])]

ReduceGroup(df) ==
    [df[1] EXCEPT !.file = JoinBar([i \in 1..Len(df) |-> df[i].file])]

WithFile(db) ==
    [i \in 1..Len(db) |->
        [id |-> db[i].id, genus |-> db[i].genus, species |-> db[i].species,
         file |-> SbmlPath(db[i].id)]]

ModelFiles(db, r) ==
    { ReduceGroup(SelectSeq(WithFile(db), LAMBDA m : m[r] = v)) :
        v \in {db[i][r] : i \in 1..Len(db)} }

DepthAfterJoin(ab, s) ==
    SumOver(ab[s], DOMAIN ab[s] \cap {models[i][rank] : i \in 1..Len(models)})

Depth(ab, s) == SumOver(ab[s], DOMAIN ab[s])

Relative(ab, s, t) == Rat(ab[s][t], Depth(ab, s))

Melt(ab) ==
    { [sample_id |-> s, taxon |-> t, abundance |-> ab[s][t],
       relative |-> Relative(ab, s, t)] :
        s \in DOMAIN ab, t \in UNION {DOMAIN ab[x] : x \in DOMAIN ab} }

MergeRow(m, a) ==
    [id |-> m.id, genus |-> m.genus, species |-> m.species, file |-> m.file,
     sample_id |-> a.sample_id, abundance |-> a.abundance,
     relative |-> a.relative]

Merged(ab, db, r) ==
    { MergeRow(m, a) : <<m, a>> \in
        { p \in ModelFiles(db, r) \X Melt(ab) : p[1][r] = p[2].taxon } }

KeepGE(rel, c) == RatGE(rel, c)

Keep(rel, c) == RatGT(rel, c)

BuildSpec(ab, db, r, c) == { row \in Merged(ab, db, r) : Keep(row.relative, c) }

-----------------------------------------------------------------------------
(* build *)

ModelPath(s) == s \o ".pickle"

BuildArgsWholeTax(t) ==
    { [s |-> x, tax |-> t, out |-> ModelPath(x)] :
        x \in {row.sample_id : row \in t} }

BuildArgsSharedPath(t) ==
    { [s |-> x, tax |-> {row \in t : row.sample_id = x},
       out |-> ModelPath("model")] : x \in {row.sample_id : row \in t} }

BuildArgs(t) ==
    { [s |-> x, tax |-> {row \in t : row.sample_id = x},
       out |-> ModelPath(x)] : x \in {row.sample_id : row \in t} }

JobOf(s) == CHOOSE a \in args : a.s = s

Running == {s \in Samples : job[s] = "running"}

AfterRaiseSwallowed == "manifest"

AfterRaise == "raised"

BuildInit ==
    /\ pc = "start"
    /\ rank \in Ranks
    /\ abundance \in [Samples -> [Columns(rank) -> 0..MaxAbund]]
    /\ models \in ModelDBs
    /\ threads \in 1..MaxThreads
    /\ cutoff \in Cutoffs
    /\ tax = {}
    /\ args = {}
    /\ job = [s \in Samples |-> "none"]
    /\ written = {}
    /\ reads = {}
    /\ calls = <<>>
    /\ manifest = <<>>
    /\ returned = FALSE

\* line 79
CallBuildSpec ==
    /\ pc = "start"
    /\ tax' = BuildSpec(abundance, models, rank, cutoff)
    /\ pc' = "spec"
    /\ UNCHANGED <<abundance, models, rank, threads, cutoff, args, job,
                   written, reads, calls, manifest, returned>>

\* lines 80-90: the directory, the job list, the call of the workflow
CallWorkflow ==
    /\ pc = "spec"
    /\ args' = BuildArgs(tax)
    /\ calls' = Append(calls, [func |-> "build_and_save", args |-> args',
                               threads |-> threads])
    /\ job' = [s \in Samples |->
                 IF \E a \in args' : a.s = s THEN "pending" ELSE "none"]
    /\ pc' = "workflow"
    /\ UNCHANGED <<abundance, models, rank, threads, cutoff, tax, written,
                   reads, manifest, returned>>

\* line 66, in one of the workflow's `threads` workers
JobBuild(s) ==
    /\ pc = "workflow"
    /\ job[s] = "pending"
    /\ Cardinality(Running) < threads
    /\ job' = [job EXCEPT ![s] = "running"]
    /\ reads' = reads \cup {[path |-> row.file, by |-> s] : row \in JobOf(s).tax}
    /\ UNCHANGED <<pc, abundance, models, rank, threads, cutoff, tax, args,
                   written, calls, manifest, returned>>

\* line 67
JobSave(s) ==
    /\ pc = "workflow"
    /\ job[s] = "running"
    /\ job' = [job EXCEPT ![s] = "saved"]
    /\ written' = written \cup {[path |-> JobOf(s).out, by |-> s]}
    /\ UNCHANGED <<pc, abundance, models, rank, threads, cutoff, tax, args,
                   reads, calls, manifest, returned>>

\* lines 66-67 raising
JobRaise(s) ==
    /\ pc = "workflow"
    /\ job[s] = "running"
    /\ job' = [job EXCEPT ![s] = "raised"]
    /\ UNCHANGED <<pc, abundance, models, rank, threads, cutoff, tax, args,
                   written, reads, calls, manifest, returned>>

\* line 90 returning
WorkflowReturn ==
    /\ pc = "workflow"
    /\ \A s \in Samples : job[s] \in {"none", "saved"}
    /\ pc' = "manifest"
    /\ UNCHANGED <<abundance, models, rank, threads, cutoff, tax, args, job,
                   written, reads, calls, manifest, returned>>

\* line 90 raising: nothing in build catches it
WorkflowRaise ==
    /\ pc = "workflow"
    /\ \E s \in Samples : job[s] = "raised"
    /\ pc' = AfterRaise
    /\ UNCHANGED <<abundance, models, rank, threads, cutoff, tax, args, job,
                   written, reads, calls, manifest, returned>>

\* line 91
WriteManifest ==
    /\ pc = "manifest"
    /\ manifest' = <<tax>>
    /\ pc' = "written"
    /\ UNCHANGED <<abundance, models, rank, threads, cutoff, tax, args, job,
                   written, reads, calls, returned>>

\* line 92
ReturnModels ==
    /\ pc = "written"
    /\ returned' = TRUE
    /\ pc' = "done"
    /\ UNCHANGED <<abundance, models, rank, threads, cutoff, tax, args, job,
                   written, reads, calls, manifest>>

-----------------------------------------------------------------------------
(* grow *)

\* A community model directory: where its pickles are, and its manifest.
CommunityDirs ==
    { [folder |-> "/q2/a/", manifest |-> {[sample_id |-> "s1", file |-> "m2.xml|m1.xml"]}],
      [folder |-> "/q2/b/", manifest |-> {[sample_id |-> "s1", file |-> "m3.xml"],
                                          [sample_id |-> "s2", file |-> "m3.xml"]}] }

Media ==
    { {[reaction |-> "EX_glc_m", flux |-> 10]},
      {[reaction |-> "EX_glc_m", flux |-> 1], [reaction |-> "EX_o2_m", flux |-> 5]},
      {} }

Tradeoffs == {Rat(1, 10), Rat(1, 2), Rat(1, 1)}

\* What the external grow workflow may return.
Growths == { {}, {[sample_id |-> "s1", taxon |-> "g1", growth_rate |-> Rat(1, 2)]} }

Exchanges ==
    { {},
      {[reaction |-> "EX_glc_m", flux |-> Rat(0, 0)]},
      {[reaction |-> "EX_glc_m", flux |-> Rat(-3, 1)],
       [reaction |-> "EX_o2_m", flux |-> Rat(0, 0)]} }

\* path_maker(model_id=i) of the directory's model files
ModelPathIn(dir, i) == <<dir.folder, ModelPath(i)>>

\* str(path).replace("blub.pickle", "")
ModelFolder(dir) ==
    LET p == ModelPathIn(dir, "blub")
    IN IF p[2] = "blub.pickle" THEN p[1] ELSE p[1] \o p[2]

GrowArgsDefaults(in) ==
    [manifest |-> in.models.manifest, model_folder |-> ModelFolder(in.models),
     medium |-> in.medium, tradeoff |-> Rat(1, 2), threads |-> 1]

GrowArgs(in) ==
    [manifest |-> in.models.manifest, model_folder |-> ModelFolder(in.models),
     medium |-> in.medium, tradeoff |-> in.tradeoff, threads |-> in.threads]

NotNaFlux(ex) == {row \in ex : ~IsNaN(row.flux)}

GrowInit ==
    /\ gpc = "start"
    /\ gin \in [models : CommunityDirs, medium : Media, tradeoff : Tradeoffs,
                threads : 1..MaxThreads]
    /\ gcalls = <<>>
    /\ gret = <<>>
    /\ gout = {}

\* lines 18-25: the call of micom.workflows.grow
CallGrow ==
    /\ gpc = "start"
    /\ gcalls' = Append(gcalls, GrowArgs(gin))
    /\ gpc' = "called"
    /\ UNCHANGED <<gin, gret, gout>>

\* lines 24-25: the workflow returns its two tables
GrowReturns(g, e) ==
    /\ gpc = "called"
    /\ gret' = <<g, e>>
    /\ gpc' = "growth"
    /\ UNCHANGED <<gin, gcalls, gout>>

\* lines 24-25: the workflow raises
GrowRaises ==
    /\ gpc = "called"
    /\ gpc' = "raised"
    /\ UNCHANGED <<gin, gcalls, gret, gout>>

\* line 26
WriteGrowth ==
    /\ gpc = "growth"
    /\ gout' = gout \cup {[file |-> "growth_rates", content |-> gret[1]]}
    /\ gpc' = "exchanges"
    /\ UNCHANGED <<gin, gcalls, gret>>

\* lines 27-29
WriteExchanges ==
    /\ gpc = "exchanges"
    /\ gout' = gout \cup {[file |-> "exchange_fluxes", content |-> NotNaFlux(gret[2])]}
    /\ gpc' = "written"
    /\ UNCHANGED <<gin, gcalls, gret>>

\* line 30
ReturnResults ==
    /\ gpc = "written"
    /\ gpc' = "done"
    /\ UNCHANGED <<gin, gcalls, gret, gout>>

-----------------------------------------------------------------------------
(* plugin_setup: the registrations and the validation of a request *)

\* Range(start, end, inclusive_start=True, inclusive_end=False); <<>> is None.
Range(start, end, inclusive_start, inclusive_end) ==
    [start |-> start, end |-> end,
     inclusive_start |-> inclusive_start, inclusive_end |-> inclusive_end]

NoRange == Range(<<>>, <<>>, TRUE, FALSE)

InRange(v, r) ==
    /\ \/ r.start = <<>>
       \/ IF r.inclusive_start THEN RatGE(v, r.start[1]) ELSE RatGT(v, r.start[1])
    /\ \/ r.end = <<>>
       \/ IF r.inclusive_end THEN RatGE(r.end[1], v) ELSE RatGT(r.end[1], v)

Zero == Rat(0, 1)
One == Rat(1, 1)

Float(r) == [base |-> "Float", range |-> r, choices |-> {}]
IntOf(r) == [base |-> "Int", range |-> r, choices |-> {}]
Str(c) == [base |-> "Str", range |-> NoRange, choices |-> c]
Metadata == [base |-> "Metadata", range |-> NoRange, choices |-> {}]

\* lines 86-117
RegisterDb ==
    [function |-> "db", inputs |-> {},
     parameters |-> [meta |-> Metadata, folder |-> Str({})]]

\* lines 119-152
RegisterBuild ==
    [function |-> "build",
     inputs |-> {"abundance", "taxonomy", "models", "medium"},
     parameters |->
        [rank |-> Str({RANKS[i] : i \in 1..Len(RANKS)}),
         threads |-> IntOf(Range(<<One>>, <<>>, TRUE, FALSE)),
         cutoff |-> Float(Range(<<Zero>>, <<One>>, TRUE, FALSE))]]

\* lines 154-196
RegisterGrow ==
    [function |-> "grow",
     inputs |-> {"models"},
     parameters |->
        [tradeoff |-> Float(Range(<<Zero>>, <<One>>, FALSE, TRUE)),
         threads |-> IntOf(Range(<<One>>, <<>>, TRUE, FALSE))]]

\* lines 198-238
RegisterTradeoff ==
    [function |-> "tradeoff",
     inputs |-> {"models"},
     parameters |->
        [tradeoff_min |-> Float(Range(<<Zero>>, <<One>>, FALSE, FALSE)),
         tradeoff_max |-> Float(Range(<<Zero>>, <<One>>, TRUE, TRUE)),
         step |-> Float(Range(<<Zero>>, <<One>>, TRUE, FALSE)),
         threads |-> IntOf(NoRange)]]

\* plugin_setup.py registers them in this order.
Registrations == <<RegisterDb, RegisterBuild, RegisterGrow, RegisterTradeoff>>

\* The signatures of the registered functions: name, default (<<>>: required).
FunctionArgs(f) ==
    IF f = "build" THEN
        << [name |-> "abundance", default |-> <<>>],
           [name |-> "taxonomy", default |-> <<>>],
           [name |-> "models", default |-> <<>>],
           [name |-> "rank", default |-> <<"genus">>],
           [name |-> "threads", default |-> <<Rat(1, 1)>>],
           [name |-> "cutoff", default |-> <<Rat(1, 10000)>>] >>
    ELSE IF f = "grow" THEN
        << [name |-> "models", default |-> <<>>],
           [name |-> "medium", default |-> <<>>],
           [name |-> "tradeoff", default |-> <<Rat(1, 2)>>],
           [name |-> "threads", default |-> <<Rat(1, 1)>>] >>
    ELSE <<>>

\* The values a request may carry.
FloatGrid == {Rat(-1, 2), Rat(0, 1), Rat(1, 2), Rat(1, 1), Rat(3, 2)}
IntGrid == {Rat(k, 1) : k \in -1..MaxThreads}
StrGrid == {"genus", "strain"}

\* The requests the host may be given for a registered function.
Requests(f) ==
    IF f = "db" THEN [meta : {"any"}, folder : {"any"}]
    ELSE IF f = "build" THEN [rank : StrGrid, threads : IntGrid, cutoff : FloatGrid]
    ELSE IF f = "grow" THEN [tradeoff : FloatGrid, threads : IntGrid]
    ELSE [tradeoff_min : FloatGrid, tradeoff_max : FloatGrid,
          step : FloatGrid, threads : IntGrid]

\* A value against a registered primitive type with its predicate.
Accepts(type, v) ==
    IF type.base \in {"Float", "Int"} THEN InRange(v, type.range)
    ELSE IF type.base = "Str" /\ type.choices # {} THEN v \in type.choices
    ELSE TRUE

Validate(reg, params) ==
    IF \A name \in DOMAIN reg.parameters : Accepts(reg.parameters[name], params[name])
    THEN "accepted" ELSE "rejected"

RegInit ==
    /\ registry = <<>>
    /\ request = <<>>
    /\ verdict = "none"

\* the next plugin.methods.register_function call of plugin_setup.py
Register ==
    /\ Len(registry) < Len(Registrations)
    /\ registry' = Append(registry, Registrations[Len(registry) + 1])
    /\ UNCHANGED <<request, verdict>>

\* the host validates the parameters of a request against the registration
Submit(i, params) ==
    /\ i \in 1..Len(registry)
    /\ request' = [function |-> registry[i].function, params |-> params]
    /\ verdict' = Validate(registry[i], params)
    /\ UNCHANGED registry

-----------------------------------------------------------------------------
(* idle values of the parts a specification does not run *)

GrowIdle ==
    /\ gpc = "idle"
    /\ gin = <<>>
    /\ gcalls = <<>>
    /\ gret = <<>>
    /\ gout = {}

RegIdle ==
    /\ registry = <<>>
    /\ request = <<>>
    /\ verdict = "none"

BuildIdle ==
    /\ pc = "idle"
    /\ abundance = <<>>
    /\ models = <<>>
    /\ rank = ""
    /\ threads = 0
    /\ cutoff = Rat(0, 1)
    /\ tax = {}
    /\ args = {}
    /\ job = <<>>
    /\ written = {}
    /\ reads = {}
    /\ calls = <<>>
    /\ manifest = <<>>
    /\ returned = FALSE

-----------------------------------------------------------------------------
Init == BuildInit /\ GrowIdle /\ RegIdle

Next ==
    \/ CallBuildSpec /\ UNCHANGED <<growVars, regVars>>
    \/ CallWorkflow /\ UNCHANGED <<growVars, regVars>>
    \/ \E s \in Samples : JobBuild(s) /\ UNCHANGED <<growVars, regVars>>
    \/ \E s \in Samples : JobSave(s) /\ UNCHANGED <<growVars, regVars>>
    \/ \E s \in Samples : JobRaise(s) /\ UNCHANGED <<growVars, regVars>>
    \/ WorkflowReturn /\ UNCHANGED <<growVars, regVars>>
    \/ WorkflowRaise /\ UNCHANGED <<growVars, regVars>>
    \/ WriteManifest /\ UNCHANGED <<growVars, regVars>>
    \/ ReturnModels /\ UNCHANGED <<growVars, regVars>>

Spec == Init /\ [][Next]_vars

GrowSpecInit == BuildIdle /\ GrowInit /\ RegIdle

GrowNext ==
    \/ CallGrow /\ UNCHANGED <<buildVars, regVars>>
    \/ \E g \in Growths, e \in Exchanges :
          GrowReturns(g, e) /\ UNCHANGED <<buildVars, regVars>>
    \/ GrowRaises /\ UNCHANGED <<buildVars, regVars>>
    \/ WriteGrowth /\ UNCHANGED <<buildVars, regVars>>
    \/ WriteExchanges /\ UNCHANGED <<buildVars, regVars>>
    \/ ReturnResults /\ UNCHANGED <<buildVars, regVars>>

GrowSpec == GrowSpecInit /\ [][GrowNext]_vars

RegSpecInit == BuildIdle /\ GrowIdle /\ RegInit

RegNext ==
    \/ Register /\ UNCHANGED <<buildVars, growVars>>
    \/ \E i \in 1..Len(Registrations) :
          \E params \in Requests(Registrations[i].function) :
             Submit(i, params) /\ UNCHANGED <<buildVars, growVars>>

RegSpec == RegSpecInit /\ [][RegNext]_vars

-----------------------------------------------------------------------------
(* Helpers of the properties *)

SpecBuilt == pc \notin {"idle", "start"}

WorkflowCalled == pc \in {"workflow", "raised", "manifest", "written", "done"}

RowsOf(t, s) == {row \in t : row.sample_id = s}

\* The indices of the models whose rank value is v, and the first of them.
IndicesOf(v) == {i \in 1..Len(models) : models[i][rank] = v}
FirstOf(v) == CHOOSE i \in IndicesOf(v) : \A j \in IndicesOf(v) : i <= j

\* The paths of the models whose rank value is v, in manifest order.
PathsOf(v) ==
    LET hit == SelectSeq([i \in 1..Len(models) |-> i], LAMBDA i : i \in IndicesOf(v))
    IN [k \in 1..Len(hit) |-> models[hit[k]].id \o ".xml"]

HasModel(v) == IndicesOf(v) # {}

RatAdd(a, b) == Rat(a.n * b.d + b.n * a.d, a.d * b.d)

RECURSIVE RelativeSum(_)
RelativeSum(rows) ==
    IF rows = {} THEN Rat(0, 1)
    ELSE LET r == CHOOSE x \in rows : TRUE
         IN RatAdd(r.relative, RelativeSum(rows \ {r}))

Total(s) == SumOver(abundance[s], Columns(rank))

RelativeIsShare ==
    \A row \in tax :
        /\ row.abundance = abundance[row.sample_id][row[rank]]
        /\ row.relative = Rat(row.abundance, Total(row.sample_id))

SumAtMostOne ==
    \A s \in Samples : ~RatGT(RelativeSum(RowsOf(tax, s)), Rat(1, 1))

Retained(s, v) == \E row \in tax : row.sample_id = s /\ row[rank] = v

-----------------------------------------------------------------------------
(* C2: build_spec keeps a row of the merged table exactly when its relative
   abundance is strictly greater than cutoff; a row whose relative abundance
   equals cutoff is excluded and the retained rows are rows of the merged
   table, unaltered. *)
C2_CutoffExact ==
    SpecBuilt =>
        /\ tax \subseteq Merged(abundance, models, rank)
        /\ \A row \in Merged(abundance, models, rank) :
              /\ row \in tax <=>
                    (row.relative.d > 0
                     /\ row.relative.n * cutoff.d > cutoff.n * row.relative.d)
              /\ (row.relative.d > 0
                  /\ row.relative.n * cutoff.d = cutoff.n * row.relative.d)
                    => row \notin tax

C2_Witness ==
    /\ pc = "spec"
    /\ cutoff.n > 0
    /\ \E row \in Merged(abundance, models, rank) :
          RatEQ(row.relative, cutoff) /\ row \notin tax
    /\ \E row \in tax : RatGT(row.relative, cutoff)

(* C4: grow calls the external grow workflow exactly once, with the manifest
   of the input directory and with the medium, the tradeoff and the thread
   count it was given. *)
C4_GrowPassesThrough ==
    /\ gpc = "start" => gcalls = <<>>
    /\ gpc \in {"called", "raised", "growth", "exchanges", "written", "done"} =>
          /\ Len(gcalls) = 1
          /\ gcalls[1].manifest = gin.models.manifest
          /\ gcalls[1].medium = gin.medium
          /\ gcalls[1].tradeoff = gin.tradeoff
          /\ gcalls[1].threads = gin.threads

C4_Witness ==
    /\ gpc = "done"
    /\ gin.medium # {}
    /\ gin.tradeoff = Rat(1, 10)
    /\ gin.threads = 2
    /\ gcalls[1].medium = gin.medium

(* C5: build calls the batch workflow exactly once, with the given thread
   count and one job per distinct sample_id of the specification; each job
   carries exactly the rows of its sample. When build is done, a sample has a
   community model exactly when one of its taxa has a model in the database
   and a relative abundance above the cutoff. *)
C5_OneJobPerSample ==
    /\ pc \in {"start", "spec"} => calls = <<>>
    /\ WorkflowCalled =>
          /\ Len(calls) = 1
          /\ calls[1].threads = threads
          /\ \A s \in Samples :
                Cardinality({a \in calls[1].args : a.s = s})
                    = IF RowsOf(tax, s) # {} THEN 1 ELSE 0
          /\ \A a \in calls[1].args : a.tax = RowsOf(tax, a.s)
          /\ \A a, b \in calls[1].args : a # b => a.tax \cap b.tax = {}
          /\ UNION {a.tax : a \in calls[1].args} = tax
    /\ pc = "done" =>
          \A s \in Samples :
              (\E w \in written : w.path = s \o ".pickle") <=>
              (\E v \in Columns(rank) :
                  /\ HasModel(v)
                  /\ Total(s) > 0
                  /\ abundance[s][v] * cutoff.d > cutoff.n * Total(s))

C5_Witness ==
    /\ pc = "done"
    /\ Cardinality(calls[1].args) = 1
    /\ Cardinality(written) = 1
    /\ \E s \in Samples : Total(s) > 0 /\ RowsOf(tax, s) = {}

(* C6, as claimed: the relative abundance of a row is its abundance divided
   by the sum of the abundances of all taxa of its sample in the collapsed
   table; the relative abundances of a sample's rows sum to at most 1, and to
   exactly 1 only when no taxon of the sample was dropped. *)
C6_Original ==
    SpecBuilt =>
        /\ RelativeIsShare
        /\ SumAtMostOne
        /\ \A s \in Samples :
              RatEQ(RelativeSum(RowsOf(tax, s)), Rat(1, 1)) =>
                  \A v \in Columns(rank) : Retained(s, v)

(* C6, amended: as claimed, but the sum is exactly 1 only when no taxon of
   the sample with a nonzero abundance was dropped. *)
C6_RelativeShare ==
    SpecBuilt =>
        /\ RelativeIsShare
        /\ SumAtMostOne
        /\ \A s \in Samples :
              RatEQ(RelativeSum(RowsOf(tax, s)), Rat(1, 1)) =>
                  \A v \in Columns(rank) : abundance[s][v] > 0 => Retained(s, v)

C6_Witness ==
    /\ pc = "spec"
    /\ \E s \in Samples :
          /\ RatEQ(RelativeSum(RowsOf(tax, s)), Rat(1, 1))
          /\ \A v \in Columns(rank) : abundance[s][v] > 0
    /\ \E s \in Samples :
          /\ RowsOf(tax, s) # {}
          /\ RatGT(Rat(1, 1), RelativeSum(RowsOf(tax, s)))

(* C7: the model database is reduced to one row per value of the chosen rank,
   with the paths of the models of that value joined with "|" in manifest
   order and the other fields of the first of them; the specification has at
   most one row per (sample_id, rank value), which holds all the model files
   of that value. *)
C7_OneRowPerRankValue ==
    SpecBuilt =>
        /\ \A m \in ModelFiles(models, rank) : HasModel(m[rank])
        /\ \A i \in 1..Len(models) :
              LET v == models[i][rank]
                  group == {m \in ModelFiles(models, rank) : m[rank] = v}
              IN /\ Cardinality(group) = 1
                 /\ \A m \in group :
                       /\ m.file = JoinBar(PathsOf(v))
                       /\ m.id = models[FirstOf(v)].id
                       /\ m.genus = models[FirstOf(v)].genus
                       /\ m.species = models[FirstOf(v)].species
        /\ \A s \in Samples, v \in Columns(rank) :
              Cardinality({row \in tax : row.sample_id = s /\ row[rank] = v}) <= 1
        /\ \A row \in tax :
              /\ row.file = JoinBar(PathsOf(row[rank]))
              /\ row.id = models[FirstOf(row[rank])].id

C7_Witness ==
    /\ pc = "spec"
    /\ rank = "genus"
    /\ \E row \in tax : row.file = "m2.xml|m1.xml" /\ row.id = "m2" /\ row.species = "x1"

(* C8: the manifest is written only after the workflow has returned, with
   every job finished; if the workflow raises, no manifest is written and
   nothing is returned; when build returns, the manifest holds exactly the
   rows of the specification, each of a sample with a submitted job. *)
C8_ManifestAfterWorkflow ==
    /\ manifest # <<>> =>
          /\ pc \in {"written", "done"}
          /\ Len(calls) = 1
          /\ \A a \in calls[1].args : job[a.s] = "saved"
    /\ (pc = "raised" \/ \E s \in Samples : job[s] = "raised") =>
          manifest = <<>> /\ ~returned
    /\ returned =>
          /\ manifest = <<tax>>
          /\ \A row \in manifest[1] : \E a \in calls[1].args : a.s = row.sample_id

C8_Witness ==
    /\ returned
    /\ Cardinality({row.sample_id : row \in manifest[1]}) = 2

C8_WitnessRaised ==
    /\ pc = "raised"
    /\ \E s \in Samples : job[s] = "saved"

(* C9: no two build jobs write the same file, for any thread count and any
   interleaving: every job has an output path of its own, each file has one
   writer, and no job reads a file another job writes. *)
C9_JobsDisjoint ==
    /\ \A a, b \in args : a.out = b.out => a = b
    /\ \A v, w \in written : v.path = w.path => v.by = w.by
    /\ \A r \in reads, w \in written : r.path = w.path => r.by = w.by

C9_Witness ==
    /\ threads >= 2
    /\ \E s, u \in Samples : s # u /\ job[s] = "running" /\ job[u] = "saved"

-----------------------------------------------------------------------------
(* Properties of the registrations *)

Registered(f) == \E i \in 1..Len(registry) : registry[i].function = f

RegistrationOf(f) == registry[CHOOSE i \in 1..Len(registry) : registry[i].function = f]

InHalfOpenUnit(v) == v.n > 0 /\ v.n <= v.d

TradeoffParameters ==
    {<<"grow", "tradeoff">>, <<"tradeoff", "tradeoff_min">>,
     <<"tradeoff", "tradeoff_max">>}

(* C1: every tradeoff value the registered operations accept lies in (0, 1]:
   the registered range of tradeoff, tradeoff_min and tradeoff_max rejects 0.0
   and everything below, accepts 1.0 and rejects everything above 1.0. *)
C1_TradeoffRange ==
    /\ \A p \in TradeoffParameters :
          Registered(p[1]) =>
              \A v \in FloatGrid :
                  Accepts(RegistrationOf(p[1]).parameters[p[2]], v)
                      <=> InHalfOpenUnit(v)
    /\ verdict = "accepted" =>
          \A p \in TradeoffParameters :
              request.function = p[1] => InHalfOpenUnit(request.params[p[2]])

(* C3: for build and grow, the names declared at registration as inputs and
   parameters are the arguments of the registered function. *)
C3_DeclaredAreArguments ==
    \A f \in {"build", "grow"} :
        Registered(f) =>
            LET declared == RegistrationOf(f).inputs
                                \cup DOMAIN RegistrationOf(f).parameters
                sig == FunctionArgs(f)
            IN /\ declared = {sig[i].name : i \in 1..Len(sig)}
               /\ \A i \in 1..Len(sig) :
                     sig[i].default = <<>> => sig[i].name \in declared

(* C10: build, grow and tradeoff restrict their thread count to integers
   >= 1, and the default thread count of build and grow is in that range. *)
C10_ThreadsAtLeastOne ==
    /\ \A f \in {"build", "grow", "tradeoff"} :
          Registered(f) =>
              \A v \in IntGrid :
                  Accepts(RegistrationOf(f).parameters.threads, v) <=> v.n >= 1
    /\ \A f \in {"build", "grow"} :
          Registered(f) =>
              \A i \in 1..Len(FunctionArgs(f)) :
                  FunctionArgs(f)[i].name = "threads" =>
                      Accepts(RegistrationOf(f).parameters.threads,
                              FunctionArgs(f)[i].default[1])
    /\ verdict = "accepted" /\ request.function \in {"build", "grow", "tradeoff"} =>
          request.params.threads.n >= 1

====
